---------------------------- MODULE Spec2Model ----------------------------
(***************************************************************************)
(* Model of pageindex-ts: the Markdown-to-tree conversion (mdToTree) with  *)
(* its Header Scanner, Section Materializer, Token Accountant, Thinning    *)
(* Reducer, Tree Builder, node-id pass, formatter and Summarizer.          *)
(*                                                                         *)
(* A JavaScript string is a sequence of one-character strings; an object   *)
(* is a function from its keys to its values, so "key in obj" is           *)
(* membership in DOMAIN.  A tree of TreeNode objects is a heap: a sequence *)
(* of node objects whose "nodes" field holds the heap indices of the       *)
(* children, so that the references structureToList returns alias the      *)
(* nodes of the tree exactly as in the source.                             *)
(***************************************************************************)
EXTENDS Integers, Sequences, FiniteSets, TLC

VARIABLES
    pc,                \* position of the mdToTree call
    options,           \* the userOptions argument of mdToTree
    content,           \* the content argument (a string)
    config,            \* config, after loadMarkdownConfig
    lines,             \* lines, returned by extractNodesFromMarkdown
    nodeList,          \* nodeList, returned by extractNodesFromMarkdown
    nodesWithContent,  \* nodesWithContent of mdToTree / resultList of the thinning pass
    original,          \* the section list as it entered treeThinningForIndex
    thinI,             \* loop index i of treeThinningForIndex (1-based)
    nodesToRemove,     \* nodesToRemove of treeThinningForIndex (1-based indices)
    treeStructure,     \* treeStructure of mdToTree: [roots, heap]
    promises,          \* summaryPromises: one promise per node of structureToList
    llmCalls,          \* the calls made to the injected llm, in order
    descPromise,       \* the promise of generateDocDescription's llm call
    result             \* the PageIndexResult, or the rejection, of the call

vars == << pc, options, content, config, lines, nodeList, nodesWithContent,
           original, thinI, nodesToRemove, treeStructure,
           promises, llmCalls, descPromise, result >>

(***************************************************************************)
(* Bounds of the model.                                                    *)
(***************************************************************************)
MaxLines == 4          \* lines of a document of SpecParse
MaxSections == 3       \* headings of a document of SpecThin
MaxLevel == 3          \* deepest heading level of a document of SpecThin
MaxThreshold == 5      \* largest thinningThreshold tried
MaxMdSections == 2     \* headings of a document of Spec
MaxMdLevel == 2        \* deepest heading level of a document of Spec

Undefined == "undefined"

(***************************************************************************)
(* Strings.                                                                *)
(***************************************************************************)
NL == "\n"

IsWs(c) == c \in {" ", NL}

RECURSIVE TrimStart(_)
TrimStart(s) ==
    IF s # << >> /\ IsWs(Head(s)) THEN TrimStart(Tail(s)) ELSE s

RECURSIVE TrimEnd(_)
TrimEnd(s) ==
    IF s # << >> /\ IsWs(s[Len(s)]) THEN TrimEnd(SubSeq(s, 1, Len(s) - 1)) ELSE s

\* String.prototype.trim
Trim(s) == TrimEnd(TrimStart(s))

\* String.prototype.split('\n')
RECURSIVE SplitFrom(_, _, _)
SplitFrom(s, k, cur) ==
    IF k > Len(s) THEN << cur >>
    ELSE IF s[k] = NL THEN << cur >> \o SplitFrom(s, k + 1, << >>)
    ELSE SplitFrom(s, k + 1, Append(cur, s[k]))

Split(s) == SplitFrom(s, 1, << >>)

\* Array.prototype.join('\n')
RECURSIVE Join(_)
Join(ls) ==
    IF ls = << >> THEN << >>
    ELSE IF Len(ls) = 1 THEN ls[1]
    ELSE ls[1] \o << NL >> \o Join(Tail(ls))

\* String.prototype.endsWith('\n')
EndsWithNL(s) == s # << >> /\ s[Len(s)] = NL

\* the number of leading "#" characters of s
RECURSIVE LeadingHashes(_)
LeadingHashes(s) ==
    IF s # << >> /\ Head(s) = "#" THEN 1 + LeadingHashes(Tail(s)) ELSE 0

\* the number of leading whitespace characters of s
RECURSIVE LeadingWs(_)
LeadingWs(s) ==
    IF s # << >> /\ IsWs(Head(s)) THEN 1 + LeadingWs(Tail(s)) ELSE 0

Min(a, b) == IF a < b THEN a ELSE b

MaxHashes == 6

\* headerPattern = /^(#{1,6})\s+(.+)$/ : does s match
HeaderMatches(s) ==
    LET h == LeadingHashes(s) IN
    /\ h >= 1
    /\ h <= MaxHashes
    /\ Len(s) >= h + 2
    /\ IsWs(s[h + 1])

\* match[2] of headerPattern: what follows the hashes and the (greedy) whitespace,
\* which leaves at least one character to the group
HeaderTitle(s) ==
    LET h == LeadingHashes(s)
        rest == SubSeq(s, h + 1, Len(s))
        w == Min(LeadingWs(rest), Len(rest) - 1)
    IN  SubSeq(rest, w + 1, Len(rest))

\* the backtick character (written as a tilde: the lexer accepts no backtick)
Tick == "~"

\* codeBlockPattern: three backticks at the start of s
CodeBlockMatches(s) ==
    Len(s) >= 3 /\ s[1] = Tick /\ s[2] = Tick /\ s[3] = Tick

\* estimateTokens: Math.ceil(text.length / 4)
estimateTokens(text) == (Len(text) + 3) \div 4

(***************************************************************************)
(* Header Scanner.                                                         *)
(***************************************************************************)
\* ScanLine without the test of the in-code-block flag
ScanLineUnfenced(st, ls, lineNum) ==
    LET strippedLine == Trim(ls[lineNum]) IN
    IF CodeBlockMatches(strippedLine)
    THEN [st EXCEPT !.inCodeBlock = ~st.inCodeBlock]
    ELSE IF strippedLine = << >> THEN st
    ELSE IF HeaderMatches(strippedLine)
    THEN [st EXCEPT !.nodeList =
            Append(@, [nodeTitle |-> Trim(HeaderTitle(strippedLine)),
                       lineNum |-> lineNum])]
    ELSE st

\* one iteration of the loop of extractNodesFromMarkdown
ScanLine(st, ls, lineNum) ==
    LET strippedLine == Trim(ls[lineNum]) IN
    IF CodeBlockMatches(strippedLine)
    THEN [st EXCEPT !.inCodeBlock = ~st.inCodeBlock]
    ELSE IF strippedLine = << >> THEN st
    ELSE IF ~st.inCodeBlock /\ HeaderMatches(strippedLine)
    THEN [st EXCEPT !.nodeList =
            Append(@, [nodeTitle |-> Trim(HeaderTitle(strippedLine)),
                       lineNum |-> lineNum])]
    ELSE st

RECURSIVE ScanLoop(_, _, _)
ScanLoop(st, ls, lineNum) ==
    IF lineNum > Len(ls) THEN st
    ELSE ScanLoop(ScanLine(st, ls, lineNum), ls, lineNum + 1)

extractNodesFromMarkdown(markdownContent) ==
    LET ls == Split(markdownContent)
        st == ScanLoop([inCodeBlock |-> FALSE, nodeList |-> << >>], ls, 1)
    IN  [nodeList |-> st.nodeList, lines |-> ls]

(***************************************************************************)
(* Section Materializer.                                                   *)
(***************************************************************************)
\* the first loop of extractNodeTextContent: /^(#{1,6})/ on the raw line
RECURSIVE MaterializeHeaders(_, _)
MaterializeHeaders(nl, markdownLines) ==
    IF nl = << >> THEN << >>
    ELSE LET node == Head(nl)
             lineContent == markdownLines[node.lineNum]
             h == Min(LeadingHashes(lineContent), MaxHashes)
         IN  IF h = 0 THEN MaterializeHeaders(Tail(nl), markdownLines)
             ELSE << [title |-> node.nodeTitle, lineNum |-> node.lineNum, level |-> h] >>
                  \o MaterializeHeaders(Tail(nl), markdownLines)

\* extractNodeTextContent with every span but the last ending one line early
extractNodeTextContentShort(nl, markdownLines) ==
    LET allNodes == MaterializeHeaders(nl, markdownLines) IN
    [i \in 1..Len(allNodes) |->
        LET node == allNodes[i]
            startLine == node.lineNum - 1
            endLine == IF i + 1 <= Len(allNodes)
                       THEN allNodes[i + 1].lineNum - 2
                       ELSE Len(markdownLines)
        IN  [title |-> node.title, lineNum |-> node.lineNum, level |-> node.level,
             text |-> Trim(Join(SubSeq(markdownLines, startLine + 1, endLine)))]]

\* the second loop of extractNodeTextContent
extractNodeTextContent(nl, markdownLines) ==
    LET allNodes == MaterializeHeaders(nl, markdownLines) IN
    [i \in 1..Len(allNodes) |->
        LET node == allNodes[i]
            startLine == node.lineNum - 1
            endLine == IF i + 1 <= Len(allNodes)
                       THEN allNodes[i + 1].lineNum - 1
                       ELSE Len(markdownLines)
        IN  [title |-> node.title, lineNum |-> node.lineNum, level |-> node.level,
             text |-> Trim(Join(SubSeq(markdownLines, startLine + 1, endLine)))]]


(***************************************************************************)
(* Token Accountant.                                                       *)
(***************************************************************************)
\* findAllChildren, with 1-based indices
RECURSIVE ChildrenFrom(_, _, _)
ChildrenFrom(i, parentLevel, nl) ==
    IF i > Len(nl) THEN << >>
    ELSE IF nl[i].level <= parentLevel THEN << >>
    ELSE << i >> \o ChildrenFrom(i + 1, parentLevel, nl)

\* findAllChildren keeping the direct children only
findAllChildrenDirect(parentIndex, parentLevel, nl) ==
    SelectSeq(ChildrenFrom(parentIndex + 1, parentLevel, nl),
              LAMBDA i : nl[i].level = parentLevel + 1)

findAllChildren(parentIndex, parentLevel, nl) ==
    ChildrenFrom(parentIndex + 1, parentLevel, nl)

\* TotalText appending the child texts without a line break before them
RECURSIVE TotalTextNoBreak(_, _, _)
TotalTextNoBreak(totalText, childrenIndices, resultList) ==
    IF childrenIndices = << >> THEN totalText
    ELSE TotalTextNoBreak(totalText \o resultList[Head(childrenIndices)].text,
                          Tail(childrenIndices), resultList)

\* the inner loop of updateNodeListWithTextTokenCount
RECURSIVE TotalText(_, _, _)
TotalText(totalText, childrenIndices, resultList) ==
    IF childrenIndices = << >> THEN totalText
    ELSE LET childText == resultList[Head(childrenIndices)].text IN
         TotalText(IF childText # << >> THEN totalText \o << NL >> \o childText
                   ELSE totalText,
                   Tail(childrenIndices), resultList)

\* one iteration of the outer loop of updateNodeListWithTextTokenCount
AccountNode(resultList, i) ==
    LET currentNode == resultList[i]
        childrenIndices == findAllChildren(i, currentNode.level, resultList)
        totalText == TotalText(currentNode.text, childrenIndices, resultList)
    IN  [resultList EXCEPT ![i] =
            [k \in DOMAIN currentNode \cup {"textTokenCount"} |->
                IF k = "textTokenCount" THEN estimateTokens(totalText)
                ELSE currentNode[k]]]

RECURSIVE AccountLoop(_, _)
AccountLoop(resultList, i) ==
    IF i < 1 THEN resultList
    ELSE AccountLoop(AccountNode(resultList, i), i - 1)

updateNodeListWithTextTokenCount(nl) == AccountLoop(nl, Len(nl))

(***************************************************************************)
(* Thinning Reducer.                                                       *)
(***************************************************************************)
\* the loop over childrenIndices: the texts pushed and the indices marked
RECURSIVE CollectChildren(_, _, _, _)
CollectChildren(acc, childrenIndices, resultList, removed) ==
    IF childrenIndices = << >> THEN acc
    ELSE LET childIndex == Head(childrenIndices)
             childText == resultList[childIndex].text
         IN  CollectChildren(
                 IF childIndex \notin removed \cup acc.marked
                 THEN [childrenTexts |->
                          IF Trim(childText) # << >>
                          THEN Append(acc.childrenTexts, childText)
                          ELSE acc.childrenTexts,
                       marked |-> acc.marked \cup {childIndex}]
                 ELSE acc,
                 Tail(childrenIndices), resultList, removed)

\* MergeTexts with a single line break where the source puts a blank line
RECURSIVE MergeTextsOneBreak(_, _)
MergeTextsOneBreak(mergedText, childrenTexts) ==
    IF childrenTexts = << >> THEN mergedText
    ELSE MergeTextsOneBreak(
            (IF mergedText # << >> /\ ~EndsWithNL(mergedText)
             THEN mergedText \o << NL >> ELSE mergedText)
            \o Head(childrenTexts),
            Tail(childrenTexts))

\* MergeTexts with the child text assigned where the source appends it
RECURSIVE MergeTextsAssigning(_, _)
MergeTextsAssigning(mergedText, childrenTexts) ==
    IF childrenTexts = << >> THEN mergedText
    ELSE MergeTextsAssigning(Head(childrenTexts), Tail(childrenTexts))

\* the loop over childrenTexts
RECURSIVE MergeTexts(_, _)
MergeTexts(mergedText, childrenTexts) ==
    IF childrenTexts = << >> THEN mergedText
    ELSE MergeTexts(
            (IF mergedText # << >> /\ ~EndsWithNL(mergedText)
             THEN mergedText \o << NL, NL >> ELSE mergedText)
            \o Head(childrenTexts),
            Tail(childrenTexts))

\* currentNode.textTokenCount || 0
TokenCountOr0(node) ==
    IF "textTokenCount" \in DOMAIN node THEN node.textTokenCount ELSE 0

\* does iteration i of treeThinningForIndex enter the merge branch
Deficient(resultList, removed, i, minNodeToken) ==
    /\ i \notin removed
    /\ TokenCountOr0(resultList[i]) < minNodeToken

\* one iteration of the loop of treeThinningForIndex
ThinIteration(st, i, minNodeToken) ==
    IF ~Deficient(st.resultList, st.nodesToRemove, i, minNodeToken) THEN st
    ELSE LET currentNode == st.resultList[i]
             childrenIndices == findAllChildren(i, currentNode.level, st.resultList)
             got == CollectChildren([childrenTexts |-> << >>, marked |-> {}],
                                    childrenIndices, st.resultList, st.nodesToRemove)
             mergedText == MergeTexts(currentNode.text, got.childrenTexts)
         IN  [resultList |->
                 IF got.childrenTexts # << >>
                 THEN [st.resultList EXCEPT ![i] =
                         [currentNode EXCEPT !.text = mergedText,
                                             !.textTokenCount = estimateTokens(mergedText)]]
                 ELSE st.resultList,
              nodesToRemove |-> st.nodesToRemove \cup got.marked]

\* the marked indices spliced out from the lowest upwards, from i to n, each
\* splice shifting the entries after it
RECURSIVE SpliceUpwards(_, _, _, _)
SpliceUpwards(resultList, removed, i, n) ==
    IF i > n THEN resultList
    ELSE SpliceUpwards(
            IF i \in removed /\ i <= Len(resultList)
            THEN SubSeq(resultList, 1, i - 1)
                 \o SubSeq(resultList, i + 1, Len(resultList))
            ELSE resultList,
            removed, i + 1, n)

\* RemoveMarked splicing in ascending order of index
RemoveMarkedAscending(resultList, removed, index) ==
    SpliceUpwards(resultList, removed, 1, index)

\* the splice loop of treeThinningForIndex: the list without the marked indices
RECURSIVE RemoveMarked(_, _, _)
RemoveMarked(resultList, removed, index) ==
    IF index < 1 THEN resultList
    ELSE RemoveMarked(
            IF index \in removed
            THEN SubSeq(resultList, 1, index - 1)
                 \o SubSeq(resultList, index + 1, Len(resultList))
            ELSE resultList,
            removed, index - 1)

RECURSIVE ThinLoop(_, _, _)
ThinLoop(st, i, minNodeToken) ==
    IF i < 1 THEN st
    ELSE ThinLoop(ThinIteration(st, i, minNodeToken), i - 1, minNodeToken)

treeThinningForIndex(nl, minNodeToken) ==
    LET st == ThinLoop([resultList |-> nl, nodesToRemove |-> {}], Len(nl), minNodeToken)
    IN  RemoveMarked(st.resultList, st.nodesToRemove, Len(nl))


(***************************************************************************)
(* Node identifiers: String(n).padStart(4, '0').                           *)
(***************************************************************************)
DigitChars == << "0", "1", "2", "3", "4", "5", "6", "7", "8", "9" >>

\* String(n) for a natural number n
RECURSIVE NumberToString(_)
NumberToString(n) ==
    IF n < 10 THEN << DigitChars[n + 1] >>
    ELSE Append(NumberToString(n \div 10), DigitChars[(n % 10) + 1])

IdWidth == 4

\* padStart(IdWidth, '0')
RECURSIVE PadStart(_)
PadStart(s) == IF Len(s) >= IdWidth THEN s ELSE PadStart(<< "0" >> \o s)

NodeIdString(n) == PadStart(NumberToString(n))

(***************************************************************************)
(* Tree Builder.                                                           *)
(***************************************************************************)
\* PopStack popping only the strictly deeper entries
RECURSIVE PopStackStrict(_, _)
PopStackStrict(stack, currentLevel) ==
    IF stack # << >> /\ stack[Len(stack)].level > currentLevel
    THEN PopStackStrict(SubSeq(stack, 1, Len(stack) - 1), currentLevel)
    ELSE stack

\* the while loop of buildTreeFromNodes
RECURSIVE PopStack(_, _)
PopStack(stack, currentLevel) ==
    IF stack # << >> /\ stack[Len(stack)].level >= currentLevel
    THEN PopStack(SubSeq(stack, 1, Len(stack) - 1), currentLevel)
    ELSE stack

\* the nodeCounter of buildTreeFromNodes starts at 1
FirstNodeCounter == 1

\* BuildNode putting the new node first, not last, among its siblings
BuildNodeUnshift(st, node) ==
    LET treeNode == [title |-> node.title,
                     nodeId |-> NodeIdString(st.nodeCounter),
                     text |-> node.text,
                     startIndex |-> node.lineNum,
                     nodes |-> << >>]
        ref == Len(st.heap) + 1
        stack == PopStack(st.stack, node.level)
        heap1 == Append(st.heap, treeNode)
    IN  [stack |-> Append(stack, [node |-> ref, level |-> node.level]),
         rootNodes |-> IF stack = << >> THEN << ref >> \o st.rootNodes
                       ELSE st.rootNodes,
         heap |-> IF stack = << >> THEN heap1
                  ELSE LET parent == stack[Len(stack)].node IN
                       [heap1 EXCEPT ![parent].nodes = << ref >> \o @],
         nodeCounter |-> st.nodeCounter + 1]

\* one iteration of the for loop of buildTreeFromNodes; the new TreeNode is
\* allocated at the heap index Len(heap) + 1
BuildNode(st, node) ==
    LET treeNode == [title |-> node.title,
                     nodeId |-> NodeIdString(st.nodeCounter),
                     text |-> node.text,
                     startIndex |-> node.lineNum,
                     nodes |-> << >>]
        ref == Len(st.heap) + 1
        stack == PopStack(st.stack, node.level)
        heap1 == Append(st.heap, treeNode)
    IN  [stack |-> Append(stack, [node |-> ref, level |-> node.level]),
         rootNodes |-> IF stack = << >> THEN Append(st.rootNodes, ref)
                       ELSE st.rootNodes,
         heap |-> IF stack = << >> THEN heap1
                  ELSE LET parent == stack[Len(stack)].node IN
                       [heap1 EXCEPT ![parent].nodes = Append(@, ref)],
         nodeCounter |-> st.nodeCounter + 1]

RECURSIVE BuildLoop(_, _)
BuildLoop(st, nl) ==
    IF nl = << >> THEN st ELSE BuildLoop(BuildNode(st, Head(nl)), Tail(nl))

buildTreeFromNodes(nl) ==
    LET st == BuildLoop([stack |-> << >>, rootNodes |-> << >>, heap |-> << >>,
                         nodeCounter |-> FirstNodeCounter], nl)
    IN  [roots |-> st.rootNodes, heap |-> st.heap]

(***************************************************************************)
(* Tree utilities.                                                         *)
(***************************************************************************)
HasKey(obj, k) == k \in DOMAIN obj

\* writeNodeId: the state is [heap, nodeId]
RECURSIVE WriteNodeIdArray(_, _)
RECURSIVE WriteNodeIdNode(_, _)
WriteNodeIdArray(st, data) ==
    IF data = << >> THEN st
    ELSE WriteNodeIdArray(WriteNodeIdNode(st, Head(data)), Tail(data))

\* WriteNodeIdNode counting the node after its subtree instead of before
WriteNodeIdNodeLate(st, ref) ==
    LET heap1 == [st.heap EXCEPT ![ref] =
                    [k \in DOMAIN st.heap[ref] \cup {"nodeId"} |->
                        IF k = "nodeId" THEN NodeIdString(st.nodeId)
                        ELSE st.heap[ref][k]]]
        st1 == [heap |-> heap1, nodeId |-> st.nodeId]
        st2 == IF HasKey(heap1[ref], "nodes")
               THEN WriteNodeIdArray(st1, heap1[ref].nodes)
               ELSE st1
    IN  [heap |-> st2.heap, nodeId |-> st2.nodeId + 1]

WriteNodeIdNode(st, ref) ==
    LET heap1 == [st.heap EXCEPT ![ref] =
                    [k \in DOMAIN st.heap[ref] \cup {"nodeId"} |->
                        IF k = "nodeId" THEN NodeIdString(st.nodeId)
                        ELSE st.heap[ref][k]]]
        st1 == [heap |-> heap1, nodeId |-> st.nodeId + 1]
    IN  IF HasKey(heap1[ref], "nodes")
        THEN WriteNodeIdArray(st1, heap1[ref].nodes)
        ELSE st1

\* the default value of the nodeId parameter of writeNodeId
FirstNodeId == 0

writeNodeId(tree) ==
    [roots |-> tree.roots,
     heap |-> WriteNodeIdArray([heap |-> tree.heap, nodeId |-> FirstNodeId],
                               tree.roots).heap]

\* structureToList: the references to the nodes, in pre-order
RECURSIVE StructureToListArray(_, _)
RECURSIVE StructureToListNode(_, _)
StructureToListArray(heap, structure) ==
    IF structure = << >> THEN << >>
    ELSE StructureToListNode(heap, Head(structure))
         \o StructureToListArray(heap, Tail(structure))

StructureToListNode(heap, ref) ==
    << ref >> \o (IF HasKey(heap[ref], "nodes")
                  THEN StructureToListArray(heap, heap[ref].nodes)
                  ELSE << >>)

structureToList(tree) == StructureToListArray(tree.heap, tree.roots)

\* reorderDict keeping every key of data, listed in keyOrder or not
reorderDictKeepingAll(data, keyOrder) == data

\* reorderDict: the keys of keyOrder that data has
reorderDict(data, keyOrder) ==
    IF keyOrder = {} THEN data
    ELSE [k \in {key \in keyOrder : key \in DOMAIN data} |-> data[k]]

\* formatStructure on one node: the copy that replaces it
FormatNode(obj, order) ==
    LET formatted ==
            IF ~HasKey(obj, "nodes") \/ obj.nodes = << >>
            THEN [k \in DOMAIN obj \ {"nodes"} |-> obj[k]]
            ELSE obj
    IN  reorderDict(formatted, order)

\* formatStructure: the copy of every node reached from structure
RECURSIVE FormatArray(_, _, _)
RECURSIVE FormatRef(_, _, _)
FormatArray(heap, structure, order) ==
    IF structure = << >> THEN heap
    ELSE FormatArray(FormatRef(heap, Head(structure), order), Tail(structure), order)

FormatRef(heap, ref, order) ==
    LET heap1 == IF HasKey(heap[ref], "nodes")
                 THEN FormatArray(heap, heap[ref].nodes, order)
                 ELSE heap
    IN  [heap1 EXCEPT ![ref] = FormatNode(heap1[ref], order)]

formatStructure(tree, order) ==
    [roots |-> tree.roots, heap |-> FormatArray(tree.heap, tree.roots, order)]

\* keyOrder of mdToTree
KeyOrder == {"title", "nodeId", "summary", "prefixSummary", "text", "startIndex", "nodes"}


(***************************************************************************)
(* Configuration.                                                          *)
(***************************************************************************)
\* DEFAULT_MARKDOWN_CONFIG
DefaultThinningThreshold == 5000
DefaultSummaryTokenThreshold == 200

DEFAULT_MARKDOWN_CONFIG ==
    [ifThinning |-> FALSE,
     thinningThreshold |-> DefaultThinningThreshold,
     summaryTokenThreshold |-> DefaultSummaryTokenThreshold,
     ifAddNodeSummary |-> TRUE,
     ifAddDocDescription |-> FALSE,
     ifAddNodeText |-> FALSE,
     ifAddNodeId |-> TRUE]

\* loadMarkdownConfig: userOptions?.key ?? DEFAULT_MARKDOWN_CONFIG.key, and the llm as given
loadMarkdownConfig(userOptions) ==
    [k \in DOMAIN DEFAULT_MARKDOWN_CONFIG \cup {"llm"} |->
        IF k \in DOMAIN userOptions THEN userOptions[k]
        ELSE IF k = "llm" THEN Undefined
        ELSE DEFAULT_MARKDOWN_CONFIG[k]]

(***************************************************************************)
(* Summarizer.                                                             *)
(***************************************************************************)
\* node.text || ''
TextOrEmpty(obj) == IF HasKey(obj, "text") THEN obj.text ELSE << >>

\* NeedsLlm returning the text also when the estimate equals the threshold
NeedsLlmAbove(obj, summaryTokenThreshold) ==
    estimateTokens(TextOrEmpty(obj)) > summaryTokenThreshold

\* getNodeSummary up to its await: does it call the llm
NeedsLlm(obj, summaryTokenThreshold) ==
    ~(estimateTokens(TextOrEmpty(obj)) < summaryTokenThreshold)

\* the prompt of getNodeSummary: the template around the node text
SummaryPrompt(obj) == [kind |-> "summary", text |-> TextOrEmpty(obj)]

\* what the injected llm answers to its k-th call, when it answers
LlmAnswer(k) == << "S" >> \o NumberToString(k)

\* nodes.map(node => getNodeSummary(...)): the promises and the llm calls, node by node
RECURSIVE IssueSummaries(_, _, _, _)
IssueSummaries(st, nodes, heap, summaryTokenThreshold) ==
    IF nodes = << >> THEN st
    ELSE LET obj == heap[Head(nodes)] IN
         IssueSummaries(
            IF NeedsLlm(obj, summaryTokenThreshold)
            THEN [promises |-> Append(st.promises,
                                  [state |-> "pending", value |-> << >>,
                                   call |-> Len(st.calls) + 1]),
                  calls |-> Append(st.calls, SummaryPrompt(obj))]
            ELSE [promises |-> Append(st.promises,
                                  [state |-> "fulfilled", value |-> TextOrEmpty(obj),
                                   call |-> 0]),
                  calls |-> st.calls],
            Tail(nodes), heap, summaryTokenThreshold)

\* WriteSummary writing summary on every node
WriteSummaryOnly(heap, ref, summary) ==
    LET obj == heap[ref] IN
    [heap EXCEPT ![ref] =
        [k \in DOMAIN obj \cup {"summary"} |-> IF k = "summary" THEN summary ELSE obj[k]]]

\* one iteration of the write loop of generateSummariesForStructureMd
WriteSummary(heap, ref, summary) ==
    LET obj == heap[ref]
        key == IF ~HasKey(obj, "nodes") \/ obj.nodes = << >>
               THEN "summary" ELSE "prefixSummary"
    IN  [heap EXCEPT ![ref] =
            [k \in DOMAIN obj \cup {key} |-> IF k = key THEN summary ELSE obj[k]]]

\* WriteSummaries handing the results out from the last one backwards
RECURSIVE WriteSummariesReversed(_, _, _, _)
WriteSummariesReversed(heap, nodes, summaries, i) ==
    IF i > Len(nodes) THEN heap
    ELSE WriteSummariesReversed(
            WriteSummary(heap, nodes[i], summaries[Len(summaries) + 1 - i].value),
            nodes, summaries, i + 1)

RECURSIVE WriteSummaries(_, _, _, _)
WriteSummaries(heap, nodes, summaries, i) ==
    IF i > Len(nodes) THEN heap
    ELSE WriteSummaries(WriteSummary(heap, nodes[i], summaries[i].value),
                        nodes, summaries, i + 1)

\* the projection generateDocDescription takes of one node
CleanNode(obj) ==
    [k \in {"title", "nodeId", "summary", "prefixSummary"} \cap DOMAIN obj |-> obj[k]]

\* cleanStructure of generateDocDescription: structure.map over the array it is given
cleanStructure(tree) == [i \in 1..Len(tree.roots) |-> CleanNode(tree.heap[tree.roots[i]])]

DescriptionPrompt(tree) == [kind |-> "description", structure |-> cleanStructure(tree)]


(***************************************************************************)
(* Inputs.                                                                 *)
(***************************************************************************)
RECURSIVE Repeat(_, _)
Repeat(c, n) == IF n = 0 THEN << >> ELSE << c >> \o Repeat(c, n - 1)

\* all sequences over S of length at most n
RECURSIVE SeqsUpTo(_, _)
SeqsUpTo(S, n) ==
    IF n = 0 THEN {<< >>}
    ELSE LET shorter == SeqsUpTo(S, n - 1) IN
         shorter \cup {Append(q, x) : q \in {r \in shorter : Len(r) = n - 1}, x \in S}

RECURSIVE Flatten(_)
Flatten(ss) == IF ss = << >> THEN << >> ELSE Head(ss) \o Flatten(Tail(ss))

Letters == << "a", "b", "c", "d", "e", "f", "g" >>

\* the lines of the documents of SpecParse: headings, an indented heading, a
\* fence, a blank line, plain text, and a hash run that is no heading
ParseLines ==
    { << "#", " ", "a" >>,
      << "#", "#", " ", "b" >>,
      << " ", "#", " ", "c" >>,
      << Tick, Tick, Tick >>,
      << >>,
      << "x", " ", "y" >>,
      << "#", "d" >> }

ParseDocs == {Join(ls) : ls \in SeqsUpTo(ParseLines, MaxLines) \ {<< >>}}

\* the documents of SpecThin and Spec: a run of sections, the k-th being a heading
\* of some level titled with the k-th letter, followed or not by a body line
BodyLine == Repeat("x", 8)

SectionLines(k, level, body) ==
    << Repeat("#", level) \o << " ", Letters[k] >> >>
    \o (IF body THEN << BodyLine >> ELSE << >>)

SectionDocs(maxSections, maxLevel) ==
    {Join(Flatten([k \in 1..Len(shape) |->
                      SectionLines(k, shape[k][1], shape[k][2])])) :
        shape \in SeqsUpTo((1..maxLevel) \X BOOLEAN, maxSections)}

\* a summaryTokenThreshold that a level-1 section with a body line meets exactly,
\* that a deeper section with a body line exceeds and a bare heading stays below
SmallSummaryThreshold == estimateTokens(Join(SectionLines(1, 1, TRUE)))

OptionKeys == {"llm", "ifThinning", "summaryTokenThreshold", "ifAddNodeSummary",
               "ifAddDocDescription", "ifAddNodeText", "ifAddNodeId"}

\* the options of Spec: every key is either left out or set away from its
\* default; summaryTokenThreshold is set only where it is read
OptionsWith(K) ==
    [k \in K |-> CASE k = "llm" -> "fn"
                   [] k = "summaryTokenThreshold" -> SmallSummaryThreshold
                   [] OTHER -> ~DEFAULT_MARKDOWN_CONFIG[k]]

MdOptions ==
    {OptionsWith(K) :
        K \in {J \in SUBSET OptionKeys :
                  "summaryTokenThreshold" \in J =>
                      "llm" \in J /\ "ifAddNodeSummary" \notin J}}

ThinOptions ==
    {[ifThinning |-> TRUE, thinningThreshold |-> t, ifAddNodeText |-> TRUE] :
        t \in 0..MaxThreshold}

ParseOptions == {[ifAddNodeText |-> TRUE]}

DocName == "doc"

InitWith(docs, opts) ==
    /\ pc = "start"
    /\ content \in docs
    /\ options \in opts
    /\ config = << >>
    /\ lines = << >>
    /\ nodeList = << >>
    /\ nodesWithContent = << >>
    /\ original = << >>
    /\ thinI = 0
    /\ nodesToRemove = {}
    /\ treeStructure = [roots |-> << >>, heap |-> << >>]
    /\ promises = << >>
    /\ llmCalls = << >>
    /\ descPromise = "none"
    /\ result = [status |-> "pending"]

Init == InitWith(SectionDocs(MaxMdSections, MaxMdLevel), MdOptions)
InitThin == InitWith(SectionDocs(MaxSections, MaxLevel), ThinOptions)
InitParse == InitWith(ParseDocs, ParseOptions)


(***************************************************************************)
(* mdToTree, step by step.                                                 *)
(***************************************************************************)
\* const config = loadMarkdownConfig(options)
LoadConfig ==
    /\ pc = "start"
    /\ config' = loadMarkdownConfig(options)
    /\ pc' = "scan"
    /\ UNCHANGED << options, content, lines, nodeList, nodesWithContent, original,
                    thinI, nodesToRemove, treeStructure, promises, llmCalls,
                    descPromise, result >>

\* const { nodeList, lines } = extractNodesFromMarkdown(content)
Scan ==
    /\ pc = "scan"
    /\ LET r == extractNodesFromMarkdown(content) IN
       /\ nodeList' = r.nodeList
       /\ lines' = r.lines
    /\ pc' = "materialize"
    /\ UNCHANGED << options, content, config, nodesWithContent, original, thinI,
                    nodesToRemove, treeStructure, promises, llmCalls, descPromise,
                    result >>

\* let nodesWithContent = extractNodeTextContent(nodeList, lines)
Materialize ==
    /\ pc = "materialize"
    /\ nodesWithContent' = extractNodeTextContent(nodeList, lines)
    /\ pc' = IF config.ifThinning THEN "account" ELSE "build"
    /\ UNCHANGED << options, content, config, lines, nodeList, original, thinI,
                    nodesToRemove, treeStructure, promises, llmCalls, descPromise,
                    result >>

\* nodesWithContent = updateNodeListWithTextTokenCount(nodesWithContent), and the
\* entry of treeThinningForIndex
Account ==
    /\ pc = "account"
    /\ LET counted == updateNodeListWithTextTokenCount(nodesWithContent) IN
       /\ nodesWithContent' = counted
       /\ original' = counted
       /\ thinI' = Len(counted)
    /\ nodesToRemove' = {}
    /\ pc' = "thin"
    /\ UNCHANGED << options, content, config, lines, nodeList, treeStructure,
                    promises, llmCalls, descPromise, result >>

\* one iteration of the loop of treeThinningForIndex
ThinStep ==
    /\ pc = "thin"
    /\ thinI >= 1
    /\ LET st == ThinIteration([resultList |-> nodesWithContent,
                                nodesToRemove |-> nodesToRemove],
                               thinI, config.thinningThreshold) IN
       /\ nodesWithContent' = st.resultList
       /\ nodesToRemove' = st.nodesToRemove
    /\ thinI' = thinI - 1
    /\ UNCHANGED << pc, options, content, config, lines, nodeList, original,
                    treeStructure, promises, llmCalls, descPromise, result >>

\* the splice loop and the return of treeThinningForIndex
ThinFinish ==
    /\ pc = "thin"
    /\ thinI = 0
    /\ nodesWithContent' = RemoveMarked(nodesWithContent, nodesToRemove,
                                        Len(nodesWithContent))
    /\ pc' = "build"
    /\ UNCHANGED << options, content, config, lines, nodeList, original, thinI,
                    nodesToRemove, treeStructure, promises, llmCalls, descPromise,
                    result >>

\* let treeStructure = buildTreeFromNodes(nodesWithContent)
Build ==
    /\ pc = "build"
    /\ treeStructure' = buildTreeFromNodes(nodesWithContent)
    /\ pc' = IF config.ifAddNodeId THEN "ids" ELSE "format"
    /\ UNCHANGED << options, content, config, lines, nodeList, nodesWithContent,
                    original, thinI, nodesToRemove, promises, llmCalls, descPromise,
                    result >>

\* if (config.ifAddNodeId) writeNodeId(treeStructure)
WriteIds ==
    /\ pc = "ids"
    /\ treeStructure' = writeNodeId(treeStructure)
    /\ pc' = "format"
    /\ UNCHANGED << options, content, config, lines, nodeList, nodesWithContent,
                    original, thinI, nodesToRemove, promises, llmCalls, descPromise,
                    result >>

\* config.ifAddNodeSummary && config.llm
WantsSummaries == config.ifAddNodeSummary /\ config.llm # Undefined

\* the else branch of mdToTree and its return: no summaries, no description
FormatAndReturn ==
    /\ pc = "format"
    /\ ~WantsSummaries
    /\ LET order == IF config.ifAddNodeText THEN KeyOrder ELSE KeyOrder \ {"text"}
           formatted == formatStructure(treeStructure, order) IN
       /\ treeStructure' = formatted
       /\ result' = [status |-> "returned", docName |-> DocName,
                     structure |-> formatted]
    /\ pc' = "returned"
    /\ UNCHANGED << options, content, config, lines, nodeList, nodesWithContent,
                    original, thinI, nodesToRemove, promises, llmCalls, descPromise >>

\* StartSummaries sending the description request along with the summary
\* requests, without awaiting them
StartSummariesDescribing ==
    /\ pc = "format"
    /\ WantsSummaries
    /\ LET formatted == formatStructure(treeStructure, KeyOrder)
           st == IssueSummaries([promises |-> << >>, calls |-> llmCalls],
                                structureToList(formatted), formatted.heap,
                                config.summaryTokenThreshold) IN
       /\ treeStructure' = formatted
       /\ promises' = st.promises
       /\ llmCalls' = IF config.ifAddDocDescription
                      THEN Append(st.calls, DescriptionPrompt(formatted))
                      ELSE st.calls
    /\ pc' = "awaitSummaries"
    /\ UNCHANGED << options, content, config, lines, nodeList, nodesWithContent,
                    original, thinI, nodesToRemove, descPromise, result >>

\* the then branch up to the await of Promise.all: formatStructure, structureToList
\* and one getNodeSummary call per node
StartSummaries ==
    /\ pc = "format"
    /\ WantsSummaries
    /\ LET formatted == formatStructure(treeStructure, KeyOrder)
           st == IssueSummaries([promises |-> << >>, calls |-> llmCalls],
                                structureToList(formatted), formatted.heap,
                                config.summaryTokenThreshold) IN
       /\ treeStructure' = formatted
       /\ promises' = st.promises
       /\ llmCalls' = st.calls
    /\ pc' = "awaitSummaries"
    /\ UNCHANGED << options, content, config, lines, nodeList, nodesWithContent,
                    original, thinI, nodesToRemove, descPromise, result >>

\* the injected llm resolves the promise of one of its summary calls
LlmResolve ==
    /\ \E i \in 1..Len(promises) :
          /\ promises[i].state = "pending"
          /\ promises' = [promises EXCEPT ![i].state = "fulfilled",
                                          ![i].value = LlmAnswer(promises[i].call)]
    /\ UNCHANGED << pc, options, content, config, lines, nodeList, nodesWithContent,
                    original, thinI, nodesToRemove, treeStructure, llmCalls,
                    descPromise, result >>

\* the injected llm rejects the promise of one of its summary calls
LlmReject ==
    /\ \E i \in 1..Len(promises) :
          /\ promises[i].state = "pending"
          /\ promises' = [promises EXCEPT ![i].state = "rejected"]
    /\ UNCHANGED << pc, options, content, config, lines, nodeList, nodesWithContent,
                    original, thinI, nodesToRemove, treeStructure, llmCalls,
                    descPromise, result >>


\* SummariesJoined waiting like Promise.allSettled: it goes on once no request is
\* pending, rejected or not
SummariesSettled ==
    /\ pc = "awaitSummaries"
    /\ \A i \in 1..Len(promises) : promises[i].state # "pending"
    /\ LET written == [roots |-> treeStructure.roots,
                       heap |-> WriteSummaries(treeStructure.heap,
                                               structureToList(treeStructure),
                                               promises, 1)]
           final == IF ~config.ifAddNodeText
                    THEN formatStructure(written, KeyOrder \ {"text"})
                    ELSE written IN
       /\ treeStructure' = final
       /\ result' = [status |-> IF config.ifAddDocDescription THEN "pending"
                                ELSE "returned",
                     docName |-> DocName, structure |-> final]
       /\ IF config.ifAddDocDescription
          THEN /\ llmCalls' = Append(llmCalls, DescriptionPrompt(final))
               /\ descPromise' = "pending"
               /\ pc' = "awaitDescription"
          ELSE /\ UNCHANGED << llmCalls, descPromise >>
               /\ pc' = "returned"
    /\ UNCHANGED << options, content, config, lines, nodeList, nodesWithContent,
                    original, thinI, nodesToRemove, promises >>

\* Promise.all(summaryPromises) is fulfilled: the write loop of
\* generateSummariesForStructureMd, then mdToTree up to its return or to the
\* await of generateDocDescription
SummariesJoined ==
    /\ pc = "awaitSummaries"
    /\ \A i \in 1..Len(promises) : promises[i].state = "fulfilled"
    /\ LET written == [roots |-> treeStructure.roots,
                       heap |-> WriteSummaries(treeStructure.heap,
                                               structureToList(treeStructure),
                                               promises, 1)]
           final == IF ~config.ifAddNodeText
                    THEN formatStructure(written, KeyOrder \ {"text"})
                    ELSE written IN
       /\ treeStructure' = final
       /\ result' = [status |-> IF config.ifAddDocDescription THEN "pending"
                                ELSE "returned",
                     docName |-> DocName, structure |-> final]
       /\ IF config.ifAddDocDescription
          THEN /\ llmCalls' = Append(llmCalls, DescriptionPrompt(final))
               /\ descPromise' = "pending"
               /\ pc' = "awaitDescription"
          ELSE /\ UNCHANGED << llmCalls, descPromise >>
               /\ pc' = "returned"
    /\ UNCHANGED << options, content, config, lines, nodeList, nodesWithContent,
                    original, thinI, nodesToRemove, promises >>

\* Promise.all(summaryPromises) is rejected: the await throws, out of
\* generateSummariesForStructureMd and out of mdToTree
SummariesRejected ==
    /\ pc = "awaitSummaries"
    /\ \E i \in 1..Len(promises) : promises[i].state = "rejected"
    /\ result' = [status |-> "rejected"]
    /\ pc' = "rejected"
    /\ UNCHANGED << options, content, config, lines, nodeList, nodesWithContent,
                    original, thinI, nodesToRemove, treeStructure, promises,
                    llmCalls, descPromise >>

\* the injected llm resolves the description call
DescResolve ==
    /\ descPromise = "pending"
    /\ descPromise' = "fulfilled"
    /\ UNCHANGED << pc, options, content, config, lines, nodeList, nodesWithContent,
                    original, thinI, nodesToRemove, treeStructure, promises,
                    llmCalls, result >>

\* the injected llm rejects the description call
DescReject ==
    /\ descPromise = "pending"
    /\ descPromise' = "rejected"
    /\ UNCHANGED << pc, options, content, config, lines, nodeList, nodesWithContent,
                    original, thinI, nodesToRemove, treeStructure, promises,
                    llmCalls, result >>

\* result.docDescription = await generateDocDescription(...); return result
ReturnDescribed ==
    /\ pc = "awaitDescription"
    /\ descPromise = "fulfilled"
    /\ result' = [status |-> "returned", docName |-> result.docName,
                  structure |-> result.structure,
                  docDescription |-> LlmAnswer(Len(llmCalls))]
    /\ pc' = "returned"
    /\ UNCHANGED << options, content, config, lines, nodeList, nodesWithContent,
                    original, thinI, nodesToRemove, treeStructure, promises,
                    llmCalls, descPromise >>

\* the await of generateDocDescription throws, out of mdToTree
DescriptionRejected ==
    /\ pc = "awaitDescription"
    /\ descPromise = "rejected"
    /\ result' = [status |-> "rejected"]
    /\ pc' = "rejected"
    /\ UNCHANGED << options, content, config, lines, nodeList, nodesWithContent,
                    original, thinI, nodesToRemove, treeStructure, promises,
                    llmCalls, descPromise >>

Next ==
    \/ LoadConfig
    \/ Scan
    \/ Materialize
    \/ Account
    \/ ThinStep
    \/ ThinFinish
    \/ Build
    \/ WriteIds
    \/ FormatAndReturn
    \/ StartSummaries
    \/ LlmResolve
    \/ LlmReject
    \/ SummariesJoined
    \/ SummariesRejected
    \/ DescResolve
    \/ DescReject
    \/ ReturnDescribed
    \/ DescriptionRejected

\* mdToTree on section documents under every combination of options
Spec == Init /\ [][Next]_vars

\* the thinning path of mdToTree up to the built tree, on section documents of
\* every level sequence and under every threshold
NextThin ==
    \/ LoadConfig
    \/ Scan
    \/ Materialize
    \/ Account
    \/ ThinStep
    \/ ThinFinish
    \/ Build

SpecThin == InitThin /\ [][NextThin]_vars

\* mdToTree without thinning and without llm, text retained, on documents of
\* every line sequence
NextParse ==
    \/ LoadConfig
    \/ Scan
    \/ Materialize
    \/ Build
    \/ WriteIds
    \/ FormatAndReturn

SpecParse == InitParse /\ [][NextParse]_vars


(***************************************************************************)
(* Vocabulary of the properties (independent of the operators above).      *)
(***************************************************************************)
Range(f) == {f[x] : x \in DOMAIN f}

Max(S) == CHOOSE x \in S : \A y \in S : y <= x

\* the elements of a set of numbers, ascending
RECURSIVE Ascending(_)
Ascending(S) ==
    IF S = {} THEN << >>
    ELSE LET m == CHOOSE x \in S : \A y \in S : x <= y IN << m >> \o Ascending(S \ {m})

\* the texts of a section list, concatenated in list order
ConcatTexts(nl) == Flatten([i \in 1..Len(nl) |-> nl[i].text])

\* a string without its whitespace characters
StripWs(s) == SelectSeq(s, LAMBDA c : ~IsWs(c))

\* the sections below section i in the heading hierarchy: those after it up to,
\* and excluding, the first one whose level is not greater than its own
Descendants(nl, i) ==
    {j \in (i + 1)..Len(nl) : \A k \in (i + 1)..j : nl[k].level > nl[i].level}

\* the nearest section before section i whose level is strictly lower, 0 if none
NearestLower(nl, i) ==
    LET lower == {j \in 1..(i - 1) : nl[j].level < nl[i].level} IN
    IF lower = {} THEN 0 ELSE Max(lower)

\* the node of the tree that lists node i among its children, 0 if none
ParentIn(tree, i) ==
    LET ps == {p \in 1..Len(tree.heap) :
                  HasKey(tree.heap[p], "nodes") /\ i \in Range(tree.heap[p].nodes)} IN
    IF ps = {} THEN 0 ELSE CHOOSE p \in ps : TRUE

\* the children of node i
ChildrenIn(tree, i) ==
    IF HasKey(tree.heap[i], "nodes") THEN tree.heap[i].nodes ELSE << >>

StrictlyIncreasing(q) == \A a, b \in 1..Len(q) : a < b => q[a] < q[b]

\* the thinning pass has returned (SpecThin runs with thinning on)
Thinned == pc \in {"build", "ids", "format"}

\* buildTreeFromNodes has returned
Built == pc \in {"ids", "format"}

\* the original indices of the sections that survive thinning, in order
Survivors == Ascending((1..Len(original)) \ nodesToRemove)

(***************************************************************************)
(* C1.  Thinning never drops textual content.                              *)
(***************************************************************************)
\* C1 as stated: after the Token Accountant and the Thinning Reducer, the
\* concatenation, in list order, of the texts of the surviving sections equals
\* the concatenation, in list order, of the texts of all original sections.
C1_ConcatenationEqual ==
    Thinned => ConcatTexts(nodesWithContent) = ConcatTexts(original)

\* the original texts in list order, a blank line ("\n\n") put before the text of
\* every absorbed section
WithSeparators ==
    Flatten([i \in 1..Len(original) |->
                (IF i \in nodesToRemove THEN << NL, NL >> ELSE << >>)
                \o original[i].text])

\* C1 amended: after thinning, the concatenation of the texts of the surviving
\* sections is the concatenation of the texts of all original sections with a
\* blank-line separator put before the text of each absorbed section; so the
\* two concatenations are equal up to whitespace, and no section text is
\* dropped, duplicated or reordered.
C1_ConcatenationUpToSeparators ==
    Thinned =>
        /\ ConcatTexts(nodesWithContent) = WithSeparators
        /\ StripWs(ConcatTexts(nodesWithContent)) = StripWs(ConcatTexts(original))

\* a thinning in which a section absorbed a section that had itself absorbed its
\* own descendants
C1_Witness ==
    /\ Thinned
    /\ \E i \in nodesToRemove :
          /\ Descendants(original, i) # {}
          /\ original[i].textTokenCount < config.thinningThreshold

(***************************************************************************)
(* C2.  The Tree Builder's placement rule.                                 *)
(***************************************************************************)
\* C2: buildTreeFromNodes makes one node per section and no other; it places
\* every section as the last child of the nearest preceding section whose
\* level is strictly lower than its own, and as a root when there is none,
\* whatever the level sequence (skipped levels included).
C2_NearestLowerParent ==
    Built =>
        /\ Len(treeStructure.heap) = Len(nodesWithContent)
        /\ StrictlyIncreasing(treeStructure.roots)
        /\ \A i \in 1..Len(treeStructure.heap) :
              /\ treeStructure.heap[i].title = nodesWithContent[i].title
              /\ StrictlyIncreasing(ChildrenIn(treeStructure, i))
              /\ ParentIn(treeStructure, i) = NearestLower(nodesWithContent, i)
              /\ Cardinality({p \in 1..Len(treeStructure.heap) :
                                 i \in Range(ChildrenIn(treeStructure, p))})
                 + Cardinality({r \in 1..Len(treeStructure.roots) :
                                   treeStructure.roots[r] = i}) = 1
              /\ (i \in Range(treeStructure.roots))
                    = (NearestLower(nodesWithContent, i) = 0)

\* a level-1 section directly followed by a level-3 section, its only child, and
\* then by a level-2 section, which is a child of the level-1 section too
C2_Witness ==
    /\ Built
    /\ Len(nodesWithContent) = 3
    /\ nodesWithContent[1].level = 1
    /\ nodesWithContent[2].level = 3
    /\ nodesWithContent[3].level = 2
    /\ treeStructure.heap[1].nodes = << 2, 3 >>
    /\ treeStructure.heap[2].nodes = << >>

(***************************************************************************)
(* C3.  No token-deficient section keeps children.                         *)
(***************************************************************************)
\* C3: with thinning threshold T, in the tree built from the thinned list no
\* node that has children has an accountant totalTokens value below T.
C3_DeficientHasNoChildren ==
    Built =>
        \A k \in 1..Len(treeStructure.heap) :
            ChildrenIn(treeStructure, k) # << >> =>
                ~(original[Survivors[k]].textTokenCount < config.thinningThreshold)

\* a tree in which one node kept its children while another section, deficient,
\* absorbed its own
C3_Witness ==
    /\ Built
    /\ nodesToRemove # {}
    /\ \E k \in 1..Len(treeStructure.heap) : ChildrenIn(treeStructure, k) # << >>


(***************************************************************************)
(* C4.  Node identifiers.                                                  *)
(***************************************************************************)
\* the nodes of a tree in pre-order: a node, then the nodes of its subtrees
RECURSIVE PreOrderOf(_, _)
PreOrderOf(tree, refs) ==
    IF refs = << >> THEN << >>
    ELSE << Head(refs) >> \o PreOrderOf(tree, ChildrenIn(tree, Head(refs)))
         \o PreOrderOf(tree, Tail(refs))

PreOrder(tree) == PreOrderOf(tree, tree.roots)

\* the four decimal digits of n, most significant first
FourDigits(n) ==
    << DigitChars[((n \div 1000) % 10) + 1], DigitChars[((n \div 100) % 10) + 1],
       DigitChars[((n \div 10) % 10) + 1], DigitChars[(n % 10) + 1] >>

\* mdToTree has returned a result
Returned == result.status = "returned"

C5_SummaryByChildren ==
    Returned =>
        \A i \in 1..Len(result.structure.heap) :
            LET obj == result.structure.heap[i] IN
            /\ ChildrenIn(result.structure, i) # << >> => ~HasKey(obj, "summary")
            /\ ChildrenIn(result.structure, i) = << >> => ~HasKey(obj, "prefixSummary")
            /\ WantsSummaries => (HasKey(obj, "summary") # HasKey(obj, "prefixSummary"))

\* a summarized tree with an internal node and a leaf
C5_Witness ==
    /\ Returned
    /\ WantsSummaries
    /\ \E i \in 1..Len(result.structure.heap) :
          /\ ChildrenIn(result.structure, i) # << >>
          /\ HasKey(result.structure.heap[i], "prefixSummary")
    /\ \E i \in 1..Len(result.structure.heap) :
          HasKey(result.structure.heap[i], "summary")

(***************************************************************************)
(* C6.  One rejected summary request fails the call, all or nothing.       *)
(***************************************************************************)
SomeRejected == \E i \in 1..Len(promises) : promises[i].state = "rejected"

\* C6: once the generation function has rejected for a node, mdToTree returns
\* no result: its only continuation is the rejection of the call, and no node
\* of the tree has a summary or prefixSummary written, however the other
\* requests settle.
C6_RejectionIsAllOrNothing ==
    SomeRejected =>
        /\ ~Returned
        /\ pc \in {"awaitSummaries", "rejected"}
        /\ pc = "awaitSummaries" => ENABLED SummariesRejected /\ ~ENABLED SummariesJoined
        /\ pc = "rejected" => result.status = "rejected"
        /\ \A i \in 1..Len(treeStructure.heap) :
              /\ ~HasKey(treeStructure.heap[i], "summary")
              /\ ~HasKey(treeStructure.heap[i], "prefixSummary")

\* the call has rejected with one request rejected and another answered
C6_Witness ==
    /\ pc = "rejected"
    /\ SomeRejected
    /\ \E i \in 1..Len(promises) : promises[i].state = "fulfilled" /\ promises[i].call > 0

(***************************************************************************)
(* C7.  A missing generation function.                                     *)
(***************************************************************************)
\* the options ask for summaries or for a description, and give no llm
LlmRequiredAndMissing ==
    LET c == loadMarkdownConfig(options) IN
    /\ c.ifAddNodeSummary \/ c.ifAddDocDescription
    /\ c.llm = Undefined

\* C7: when the options require the generation function and no llm is
\* supplied, mdToTree fails before any scanning, thinning or tree building, and
\* never returns a result.
C7_FailsFastWithoutLlm ==
    LlmRequiredAndMissing => (pc \in {"start", "rejected"} /\ ~Returned)


(***************************************************************************)
(* C8.  Headings inside fenced code blocks.                                *)
(***************************************************************************)
\* line k, trimmed, begins with three backticks
IsFenceLine(ls, k) ==
    LET t == Trim(ls[k]) IN
    Len(t) >= 3 /\ \A c \in 1..3 : t[c] = Tick

\* line k lies inside a fenced code block: an odd number of fence lines precede it
InsideFence(ls, k) ==
    Cardinality({f \in 1..(k - 1) : IsFenceLine(ls, f)}) % 2 = 1

\* line k, trimmed, has the shape of a heading: one to six "#", whitespace, a title
HeadingShaped(ls, k) ==
    LET t == Trim(ls[k]) IN
    \E h \in 1..MaxHashes :
        /\ Len(t) >= h + 2
        /\ \A c \in 1..h : t[c] = "#"
        /\ IsWs(t[h + 1])

\* extractNodesFromMarkdown has returned
Scanned == pc \notin {"start", "scan"}

\* C8: extractNodesFromMarkdown never reports a line inside a fenced code block:
\* every fence line flips the flag, and the lines reported are exactly the
\* heading-shaped lines, not fence lines themselves, that an even number of
\* fence lines precede, in document order.
C8_NoHeadingInsideFence ==
    Scanned =>
        /\ \A n \in 1..Len(nodeList) :
              /\ ~InsideFence(lines, nodeList[n].lineNum)
              /\ ~IsFenceLine(lines, nodeList[n].lineNum)
        /\ [n \in 1..Len(nodeList) |-> nodeList[n].lineNum]
             = Ascending({k \in 1..Len(lines) :
                             /\ HeadingShaped(lines, k)
                             /\ ~IsFenceLine(lines, k)
                             /\ ~InsideFence(lines, k)})

\* a document with a heading line inside a fence, not reported, and a heading
\* reported after the fence is closed
C8_Witness ==
    /\ Scanned
    /\ \E k \in 1..Len(lines) :
          /\ HeadingShaped(lines, k)
          /\ InsideFence(lines, k)
          /\ \E n \in 1..Len(nodeList) : nodeList[n].lineNum > k

(***************************************************************************)
(* C9.  The texts of the tree against the document.                        *)
(***************************************************************************)
\* the leaves of a tree in pre-order
Leaves(tree) == SelectSeq(PreOrder(tree), LAMBDA i : ChildrenIn(tree, i) = << >>)

TextsOf(tree, refs) == Flatten([k \in 1..Len(refs) |-> tree.heap[refs[k]].text])

\* the lines the Header Scanner recognizes as headings
HeadingLines(ls) ==
    {k \in 1..Len(ls) :
        HeadingShaped(ls, k) /\ ~IsFenceLine(ls, k) /\ ~InsideFence(ls, k)}

\* the document from line k onward; nothing when k is 0
FromLine(ls, k) == IF k = 0 THEN << >> ELSE Join(SubSeq(ls, k, Len(ls)))

First(S) == IF S = {} THEN 0 ELSE CHOOSE x \in S : \A y \in S : x <= y

\* the first line at which a section opens: the first recognized heading that
\* begins with "#" in its first column (an indented heading opens none)
FirstSectionLine(ls) == First({k \in HeadingLines(ls) : Head(ls[k]) = "#"})

RECURSIVE BlankLineJoined(_, _)
BlankLineJoined(nl, idxs) ==
    IF idxs = << >> THEN << >>
    ELSE << NL, NL >> \o nl[Head(idxs)].text \o BlankLineJoined(nl, Tail(idxs))

\* the next iteration of the thinning loop is at a section, not yet absorbed,
\* whose totalTokens is below the threshold
AtDeficientSection ==
    /\ pc = "thin"
    /\ thinI >= 1
    /\ thinI \notin nodesToRemove
    /\ nodesWithContent[thinI].textTokenCount < config.thinningThreshold

\* C10, the step: when a section whose totalTokens is below the threshold
\* absorbs its descendants, its text becomes its own text followed by the text of
\* each not-yet-absorbed descendant in ascending index order, each after a blank
\* line; its tokenCount is recomputed from the merged text; all its
\* descendants are marked for removal; no other section changes.
C10_AbsorbStep ==
    AtDeficientSection =>
        LET i == thinI
            desc == Descendants(nodesWithContent, i)
            fresh == Ascending(desc \ nodesToRemove)
            merged == nodesWithContent[i].text \o BlankLineJoined(nodesWithContent, fresh)
        IN  /\ nodesToRemove' = nodesToRemove \cup desc
            /\ nodesWithContent'[i].text = merged
            /\ fresh # << >> =>
                  nodesWithContent'[i].textTokenCount = (Len(merged) + 3) \div 4
            /\ \A j \in 1..Len(nodesWithContent) :
                  j # i => nodesWithContent'[j] = nodesWithContent[j]

\* C10, the outcome: the sections marked are removed from the list, and a root
\* with two child sections, all three below the threshold, collapses into a
\* single root whose text is the three texts in document order, a blank line
\* between them.
C10_Outcome ==
    Thinned =>
        /\ Len(nodesWithContent) = Len(original) - Cardinality(nodesToRemove)
        /\ \A k \in 1..Len(nodesWithContent) :
              nodesWithContent[k].lineNum = original[Survivors[k]].lineNum
        /\ ( /\ Len(original) = 3
             /\ original[2].level > original[1].level
             /\ original[3].level > original[1].level
             /\ original[3].level = original[2].level
             /\ \A k \in 1..3 : original[k].textTokenCount < config.thinningThreshold )
           => ( /\ Len(nodesWithContent) = 1
                /\ nodesWithContent[1].text =
                      original[1].text \o << NL, NL >> \o original[2].text
                      \o << NL, NL >> \o original[3].text )

\* C10: every step of the thinning loop at a deficient section merges as
\* C10_AbsorbStep says, and every thinning ends as C10_Outcome says.
C10_AbsorbedTextAfterBlankLine == [][C10_AbsorbStep]_vars /\ []C10_Outcome

\* a root with two child sections, all three below the threshold, collapsed
\* into one section
C10_Witness ==
    /\ Thinned
    /\ Len(original) = 3
    /\ original[2].level > original[1].level
    /\ original[3].level = original[2].level
    /\ \A k \in 1..3 : original[k].textTokenCount < config.thinningThreshold
    /\ Len(nodesWithContent) = 1


(***************************************************************************)
(* C11.  Which nodes the generation function is called for.                *)
(***************************************************************************)
\* the least number of four-character groups that cover n characters
CeilQuarter(n) == CHOOSE k \in 0..n : 4 * k >= n /\ 4 * (k - 1) < n

\* generateSummariesForStructureMd has issued its requests
SummariesStarted ==
    pc \in {"awaitSummaries", "awaitDescription", "returned", "rejected"} /\ WantsSummaries

\* the sections, by index, whose text estimate reaches the summary threshold
AtOrAboveThreshold ==
    {i \in 1..Len(nodesWithContent) :
        CeilQuarter(Len(nodesWithContent[i].text)) >= config.summaryTokenThreshold}

\* the summary requests the generation function has received, in order
SummaryCalls == SelectSeq(llmCalls, LAMBDA c : c.kind = "summary")

\* the summary or prefixSummary of a node, Undefined if it has neither
SummaryOf(obj) ==
    IF HasKey(obj, "summary") THEN obj.summary
    ELSE IF HasKey(obj, "prefixSummary") THEN obj.prefixSummary
    ELSE Undefined

\* C11: during summarization the generation function is called exactly once
\* for each node whose estimateTokens(text) is greater than or equal to
\* summaryTokenThreshold, with that node's text, and never for a node below
\* the threshold; a node below it receives its own text unchanged as its
\* summary or prefixSummary.  Before summarization no call is made.
C11_LlmCalledAtOrAboveThreshold ==
    /\ ~SummariesStarted => llmCalls = << >>
    /\ SummariesStarted =>
          /\ Len(SummaryCalls) = Cardinality(AtOrAboveThreshold)
          /\ \A i \in AtOrAboveThreshold :
                Cardinality({c \in 1..Len(SummaryCalls) :
                                SummaryCalls[c].text = nodesWithContent[i].text})
                  = Cardinality({j \in AtOrAboveThreshold :
                                    nodesWithContent[j].text = nodesWithContent[i].text})
          /\ \A c \in 1..Len(SummaryCalls) :
                \E i \in AtOrAboveThreshold :
                    SummaryCalls[c].text = nodesWithContent[i].text
          /\ Returned =>
                \A i \in (1..Len(nodesWithContent)) \ AtOrAboveThreshold :
                    SummaryOf(result.structure.heap[i]) = nodesWithContent[i].text

\* a summarized tree returned with a node whose estimate equals the threshold,
\* summarized by the generation function, and a node below it that kept its text
C11_Witness ==
    /\ Returned
    /\ SummariesStarted
    /\ \E i \in AtOrAboveThreshold :
          /\ CeilQuarter(Len(nodesWithContent[i].text)) = config.summaryTokenThreshold
          /\ SummaryOf(result.structure.heap[i]) # nodesWithContent[i].text
    /\ \E i \in (1..Len(nodesWithContent)) \ AtOrAboveThreshold :
          SummaryOf(result.structure.heap[i]) = nodesWithContent[i].text

(***************************************************************************)
(* C12.  The description request comes after the summaries.                *)
(***************************************************************************)
\* the description requests the generation function has received
DescriptionCalls == SelectSeq(llmCalls, LAMBDA c : c.kind = "description")

\* C12: the description request is issued at most once, and only when a
\* description is requested; when it has been issued every per-node summary
\* request has resolved and its result is written to its node, as summary or
\* prefixSummary, and no request follows it; so it is never issued while a node
\* summary is pending and never when one failed.  A call that returns with
\* summaries and a description requested has issued it.
C12_DescriptionAfterSummaries ==
    /\ Len(DescriptionCalls) <= 1
    /\ (descPromise # "none") = (DescriptionCalls # << >>)
    /\ DescriptionCalls # << >> =>
          /\ config.ifAddDocDescription
          /\ llmCalls[Len(llmCalls)].kind = "description"
          /\ Len(promises) = Len(treeStructure.heap)
          /\ \A k \in 1..Len(promises) :
                /\ promises[k].state = "fulfilled"
                /\ SummaryOf(treeStructure.heap[PreOrder(treeStructure)[k]])
                     = promises[k].value
    /\ (Returned /\ SummariesStarted /\ config.ifAddDocDescription) =>
          DescriptionCalls # << >> /\ HasKey(result, "docDescription")

\* the description request issued after two summary requests were answered by
\* the generation function
C12_Witness ==
    /\ DescriptionCalls # << >>
    /\ Len(SummaryCalls) >= 2
    /\ descPromise = "pending"

(***************************************************************************)
(* C13.  ifAddNodeText decides the text field and nothing else.            *)
(***************************************************************************)
\* the sections that have section i as nearest preceding lower-level section
ChildSections(nl, i) == Ascending({j \in 1..Len(nl) : NearestLower(nl, j) = i})

\* what getNodeSummary gives for section i: its text below the threshold, and
\* otherwise the answer to the request made for it, requests being counted
\* in section order
ExpectedSummary(i) ==
    IF i \in AtOrAboveThreshold
    THEN LlmAnswer(Cardinality({j \in AtOrAboveThreshold : j <= i}))
    ELSE nodesWithContent[i].text

\* the fields other than text that the returned node of section i carries;
\* ifAddNodeText is not read
ExpectedOtherFields(i) ==
    LET kids == ChildSections(nodesWithContent, i)
        keys == {"title", "nodeId", "startIndex"}
                \cup (IF kids # << >> THEN {"nodes"} ELSE {})
                \cup (IF ~WantsSummaries THEN {}
                      ELSE IF kids # << >> THEN {"prefixSummary"} ELSE {"summary"})
    IN  [k \in keys |->
            CASE k = "title" -> nodesWithContent[i].title
              [] k = "nodeId" -> IF config.ifAddNodeId THEN FourDigits(i - 1)
                                 ELSE FourDigits(i)
              [] k = "startIndex" -> nodesWithContent[i].lineNum
              [] k = "nodes" -> kids
              [] OTHER -> ExpectedSummary(i)]

\* C13: with ifAddNodeText off no node of the returned tree carries a text
\* field, and with it on every node carries its owned text; this holds with
\* summaries generated and without, and the other fields of each node (title,
\* nodeId, startIndex, summary, prefixSummary, children) are given by the
\* sections and the other options alone, so they are the same in both settings.
C13_TextFieldByOption ==
    Returned =>
        /\ Len(result.structure.heap) = Len(nodesWithContent)
        /\ \A i \in 1..Len(result.structure.heap) :
              LET obj == result.structure.heap[i] IN
              /\ HasKey(obj, "text") = config.ifAddNodeText
              /\ HasKey(obj, "text") => obj.text = nodesWithContent[i].text
              /\ [k \in DOMAIN obj \ {"text"} |-> obj[k]] = ExpectedOtherFields(i)

\* a tree returned without text after its nodes were summarized from their
\* text, one of them by the generation function
C13_Witness ==
    /\ Returned
    /\ SummariesStarted
    /\ ~config.ifAddNodeText
    /\ AtOrAboveThreshold # {}
    /\ \E i \in 1..Len(result.structure.heap) : ChildrenIn(result.structure, i) # << >>

(***************************************************************************)
(* C14.  The tree keeps the order of the sections.                         *)
(***************************************************************************)
\* the numbers 1..n in order
UpTo(n) == [k \in 1..n |-> k]

\* C14: a pre-order traversal of the tree built by buildTreeFromNodes (the
\* spec's traversal and structureToList alike) visits exactly one node per flat
\* section, in list order, each node carrying the title and start line of its
\* section; and the list thinning returns holds the surviving sections in
\* their original relative order, each with the title, level and start line
\* it had.
C14_PreOrderIsListOrder ==
    /\ Thinned =>
          /\ Len(nodesWithContent) = Len(Survivors)
          /\ \A k \in 1..Len(nodesWithContent) :
                /\ nodesWithContent[k].title = original[Survivors[k]].title
                /\ nodesWithContent[k].level = original[Survivors[k]].level
                /\ nodesWithContent[k].lineNum = original[Survivors[k]].lineNum
    /\ Built =>
          /\ PreOrder(treeStructure) = UpTo(Len(nodesWithContent))
          /\ structureToList(treeStructure) = UpTo(Len(nodesWithContent))
          /\ \A k \in 1..Len(nodesWithContent) :
                /\ treeStructure.heap[k].title = nodesWithContent[k].title
                /\ treeStructure.heap[k].startIndex = nodesWithContent[k].lineNum

\* a tree of two nodes or more built after thinning, in which a surviving
\* section follows an absorbed one
C14_Witness ==
    /\ Built
    /\ \E k \in 1..Len(Survivors) : Survivors[k] > k
    /\ Len(treeStructure.heap) >= 2

(***************************************************************************)
(* C15.  The token estimate and the accountant's totals.                   *)
(***************************************************************************)
\* updateNodeListWithTextTokenCount has returned (SpecThin); original holds
\* its result
Accounted == pc \in {"thin", "build", "ids", "format"}

\* estimateTokens(text) = ceil(length(text) / 4), on every text of up to twice
\* the length of a body line; 0 for the empty string, 1 for four characters
EstimateIsCeilQuarter ==
    /\ \A n \in 0..(2 * Len(BodyLine)) :
          estimateTokens(Repeat("x", n)) = CeilQuarter(n)
    /\ estimateTokens(<< >>) = 0
    /\ estimateTokens(<< "a", "b", "c", "d" >>) = 1

\* the texts of the sections idxs of a list, a line break before each
\* non-empty one
RECURSIVE LineBreakJoined(_, _)
LineBreakJoined(nl, idxs) ==
    IF idxs = << >> THEN << >>
    ELSE (IF nl[Head(idxs)].text # << >> THEN << NL >> \o nl[Head(idxs)].text
          ELSE << >>)
         \o LineBreakJoined(nl, Tail(idxs))

\* C15 as stated: estimateTokens(text) = ceil(length(text) / 4), and for
\* every section i the Token Accountant sets totalTokens(i) =
\* estimateTokens(text(i) + "\n" + concatenation of the texts, in order, of
\* children(i)), children(i) being the sections after i up to, and excluding,
\* the first one whose level is not greater.
C15_TotalWithOneLineBreak ==
    /\ EstimateIsCeilQuarter
    /\ Accounted =>
          \A i \in 1..Len(original) :
              LET kids == Ascending(Descendants(original, i)) IN
              original[i].textTokenCount
                = CeilQuarter(Len(original[i].text) + 1
                              + Len(Flatten([k \in 1..Len(kids) |->
                                                original[kids[k]].text])))

\* C15 amended: estimateTokens(text) = ceil(length(text) / 4), and for every
\* section i the Token Accountant sets totalTokens(i) = estimateTokens of
\* text(i) followed, for each section of children(i) in order whose text is
\* not empty, by "\n" and that text: one line break before each child text,
\* and none when i has no children.
C15_TotalWithLineBreakPerChild ==
    /\ EstimateIsCeilQuarter
    /\ Accounted =>
          \A i \in 1..Len(original) :
              original[i].textTokenCount
                = CeilQuarter(Len(original[i].text
                                  \o LineBreakJoined(original,
                                         Ascending(Descendants(original, i)))))

\* an accounted list with a section that has two sections below it, one of them
\* nested, and a section that has none
C15_Witness ==
    /\ Accounted
    /\ \E i \in 1..Len(original) : Cardinality(Descendants(original, i)) >= 2
    /\ \E i \in 1..Len(original) :
          /\ Descendants(original, i) = {}
          /\ HasKey(original[i], "textTokenCount")

(***************************************************************************)
(* C16.  One section per recognized heading.                               *)
(***************************************************************************)
\* extractNodeTextContent has returned
Materialized == pc \notin {"start", "scan", "materialize"}

\* the number of "#" characters a string begins with
RECURSIVE HashRun(_)
HashRun(s) == IF s # << >> /\ Head(s) = "#" THEN 1 + HashRun(Tail(s)) ELSE 0

\* the line before the n-th recognized heading's successor: the span of the
\* n-th heading ends there
SpanEnd(n) == IF n < Len(nodeList) THEN nodeList[n + 1].lineNum - 1 ELSE Len(lines)

\* C16: one flat section exists per heading recognized by the Header Scanner,
\* in document order: every (title, line) pair returned by
\* extractNodesFromMarkdown, a heading line with leading whitespace before its
\* "#" characters included, yields exactly one section from
\* extractNodeTextContent, whose level is the number of leading "#" of that
\* heading and whose span ends just before the next recognized heading.
C16_OneSectionPerHeading ==
    Materialized =>
        /\ Len(nodesWithContent) = Len(nodeList)
        /\ \A n \in 1..Len(nodeList) :
              n <= Len(nodesWithContent) =>
                  /\ nodesWithContent[n].title = nodeList[n].nodeTitle
                  /\ nodesWithContent[n].lineNum = nodeList[n].lineNum
                  /\ nodesWithContent[n].level
                       = HashRun(TrimStart(lines[nodeList[n].lineNum]))
                  /\ nodesWithContent[n].text
                       = Trim(Join(SubSeq(lines, nodeList[n].lineNum, SpanEnd(n))))

(***************************************************************************)
(* C17.  Concurrent summary requests.                                      *)
(***************************************************************************)
\* some node of the tree has its summary or prefixSummary written
SomeSlotWritten ==
    \E i \in 1..Len(treeStructure.heap) : SummaryOf(treeStructure.heap[i]) # Undefined

\* some summary request has been answered
SomeResponse ==
    \E k \in 1..Len(promises) : promises[k].call > 0 /\ promises[k].state # "pending"

\* C17, the states: when a response has arrived all summary requests of the
\* tree have been issued; no slot is written while a request is not
\* fulfilled; and a written slot holds the node's own text when the node is
\* below the threshold, and otherwise the answer to a request built from the
\* node's own text.
C17_State ==
    /\ SomeResponse => Len(SummaryCalls) = Cardinality(AtOrAboveThreshold)
    /\ SomeSlotWritten =>
          /\ \A k \in 1..Len(promises) : promises[k].state = "fulfilled"
          /\ \A i \in 1..Len(treeStructure.heap) :
                LET got == SummaryOf(treeStructure.heap[i]) IN
                /\ got # Undefined
                /\ i \notin AtOrAboveThreshold => got = nodesWithContent[i].text
                /\ i \in AtOrAboveThreshold =>
                      \E k \in 1..Len(llmCalls) :
                          /\ got = LlmAnswer(k)
                          /\ llmCalls[k].kind = "summary"
                          /\ llmCalls[k].text = nodesWithContent[i].text

\* C17, the steps: summary requests are issued only while no request of the
\* tree exists yet, so all of them in one step and before any response is
\* consumed; and a slot once written is never written again.
C17_Step ==
    /\ SummaryCalls' # SummaryCalls => promises = << >>
    /\ \A i \in 1..Len(treeStructure.heap) :
          SummaryOf(treeStructure.heap[i]) # Undefined =>
              /\ Len(treeStructure'.heap) = Len(treeStructure.heap)
              /\ SummaryOf(treeStructure'.heap[i]) = SummaryOf(treeStructure.heap[i])

\* C17: all summary requests of one tree are issued before any response is
\* consumed, and under every interleaving of the responses each node receives
\* the result of the request built from its own text, each slot is written
\* exactly once, and no slot is written before all requests have completed.
C17_EachNodeItsOwnResult == [][C17_Step]_vars /\ []C17_State

\* two requests in flight, the second answered while the first is pending
C17_Witness ==
    /\ pc = "awaitSummaries"
    /\ Len(promises) >= 2
    /\ promises[1].call > 0 /\ promises[1].state = "pending"
    /\ promises[2].call > 0 /\ promises[2].state = "fulfilled"

(***************************************************************************)
(* C18.  What the description prompt is built from.                        *)
(***************************************************************************)
\* the {title, nodeId, summary, prefixSummary} projection of a node
Projection(obj) ==
    [k \in {"title", "nodeId", "summary", "prefixSummary"} \cap DOMAIN obj |-> obj[k]]

\* C18: the document-description prompt is built from the {title, nodeId,
\* summary, prefixSummary} projection of every node of the tree, at every
\* depth, not only of the root nodes: for a tree with n nodes the serialized
\* array in the prompt has n entries.
C18_DescriptionCoversEveryNode ==
    DescriptionCalls # << >> =>
        LET sent == DescriptionCalls[1].structure
            order == PreOrder(treeStructure) IN
        /\ Len(sent) = Len(treeStructure.heap)
        /\ \A k \in 1..Len(order) :
              k <= Len(sent) => sent[k] = Projection(treeStructure.heap[order[k]])

(***************************************************************************)
(* C19.  Node identifiers only on request.                                 *)
(***************************************************************************)
\* C19: node identifiers are assigned only when requested: when mdToTree is
\* called with ifAddNodeId off, no node of the returned tree carries a nodeId
\* field.
C19_NoNodeIdUnlessRequested ==
    (Returned /\ ~config.ifAddNodeId) =>
        \A i \in 1..Len(result.structure.heap) :
            ~HasKey(result.structure.heap[i], "nodeId")

(***************************************************************************)
(* C20.  Thinning removes whole subtrees only.                             *)
(***************************************************************************)
\* the tree built from the unthinned list
Unthinned == buildTreeFromNodes(original)

\* the ancestors of node i of a tree
RECURSIVE AncestorsIn(_, _)
AncestorsIn(tree, i) ==
    LET p == ParentIn(tree, i) IN
    IF p = 0 THEN {} ELSE {p} \cup AncestorsIn(tree, p)

\* the original index of the parent of node k of the thinned tree, 0 for a root
ThinnedParent(k) ==
    LET p == ParentIn(treeStructure, k) IN IF p = 0 THEN 0 ELSE Survivors[p]

\* the k-th section of the thinned list has absorbed text: its text is no
\* longer the one it had
Absorbed(k) == nodesWithContent[k].text # original[Survivors[k]].text

\* C20: thinning removes whole subtrees only: for every level sequence and
\* threshold the thinned list is the list of the unmarked sections, the
\* descendants of a removed section are all removed, every ancestor a
\* surviving section had in the tree built from the unthinned list survives,
\* the parent of each surviving node in the tree built from the thinned list
\* is the same section as its parent in the unthinned tree, and every section
\* that absorbed descendants is a leaf of the thinned tree.
C20_WholeSubtreesOnly ==
    Built =>
        /\ Len(nodesWithContent) = Len(Survivors)
        /\ \A r \in nodesToRemove :
              {j \in 1..Len(original) : r \in AncestorsIn(Unthinned, j)}
                  \subseteq nodesToRemove
        /\ \A k \in 1..Len(Survivors) :
              k <= Len(nodesWithContent) =>
                  /\ nodesWithContent[k].lineNum = original[Survivors[k]].lineNum
                  /\ AncestorsIn(Unthinned, Survivors[k]) \cap nodesToRemove = {}
                  /\ ThinnedParent(k) = ParentIn(Unthinned, Survivors[k])
                  /\ Absorbed(k) => ChildrenIn(treeStructure, k) = << >>

\* a thinned tree in which a section that absorbed its descendants is a leaf
\* under the parent it had
C20_Witness ==
    /\ Built
    /\ \E k \in 1..Len(nodesWithContent) :
          /\ Absorbed(k)
          /\ ParentIn(treeStructure, k) # 0
          /\ ChildrenIn(treeStructure, k) = << >>

=============================================================================
